---- MODULE Spec2Model ----
(***************************************************************************)
(* State-machine model of wfc2d::internal::WaveFunctionCollapse2DImpl      *)
(* (src/src/wfc/wfc2d.hpp).                                                *)
(*                                                                         *)
(* Vectors are modelled as functions over 0..n-1 so that indices are the   *)
(* indices of the C++ code.  A std::bitset<BITSET_SIZE> is modelled as the *)
(* set of positions of its set bits, a subset of 0..BITSET_SIZE-1.         *)
(***************************************************************************)
EXTENDS Integers, Sequences, FiniteSets, TLC

VARIABLES
    m_gridWidth,    \* size_t m_gridWidth
    m_gridHeight,   \* size_t m_gridHeight
    m_wave,         \* std::vector<Tile> m_wave
    m_output,       \* std::vector<size_t> m_output
    m_ruleset,      \* std::vector<Tile> m_ruleset
    m_initialized,  \* bool m_initialized
    pc,             \* "idle", or "propagate" while propagate() is executing
    index,          \* loop variable of propagate()
    neighbors,      \* local `neighbors` of propagate()
    currentIndex,   \* argument of the last public getNeighboringIndices call
    neighboringIndices, \* vector returned by that call
    inputFile       \* lines of the file parseRulesFromFile last read

vars == <<m_gridWidth, m_gridHeight, m_wave, m_output, m_ruleset,
          m_initialized, pc, index, neighbors, currentIndex,
          neighboringIndices, inputFile>>

----------------------------------------------------------------------------
(* Bounds of the model                                                     *)

\* largest number of cells (rows * cols) given to initialize in Spec and
\* SpecWave
MaxCells == 3
\* largest rows and cols given to initialize in SpecNeighbors
MaxGridRows == 3
MaxGridCols == 3
\* parseRulesFromFile is not called once the ruleset holds this many tiles
MaxTiles == 1
\* largest number of lines of a rule file in SpecParse
MaxLines == 4

----------------------------------------------------------------------------
(* Program constants                                                       *)

NUM_OPTION_DIRECTIONS == 4
BITSET_SIZE == 8

\* std::numeric_limits<std::size_t>::max(), the value initialize fills the
\* output grid with.  It is 2^64-1, which as a two's complement word is -1;
\* the only property used is that it differs from every option index.
SIZE_MAX == -1

\* EDirections { Up, Down, Left, Right } and the index parseOption gives
\* each key.
Up == 0
Down == 1
Left == 2
Right == 3
Directions == 0 .. (NUM_OPTION_DIRECTIONS - 1)

----------------------------------------------------------------------------
(* Vectors and bitsets                                                     *)

Size(v) == Cardinality(DOMAIN v)

EmptyVector == <<>>

push_back(v, x) ==
    [i \in 0 .. Size(v) |-> IF i < Size(v) THEN v[i] ELSE x]

\* std::bitset<BITSET_SIZE>() : no bit set;  .set() : every bit set
NoBits == {}
AllBits == 0 .. (BITSET_SIZE - 1)

\* A value-initialized Tile, as std::vector::resize appends it.
DefaultTile ==
    [options |-> [d \in Directions |-> NoBits], entropy |-> 0,
     collapsed |-> FALSE]

\* v.resize(n): the first n elements are kept, new ones are value-initialized
resize(v, n, fresh) ==
    [i \in 0 .. (n - 1) |-> IF i < Size(v) THEN v[i] ELSE fresh]

----------------------------------------------------------------------------
(* Rule files                                                              *)
(*                                                                         *)
(* parseRulesFromFile looks at a line only through the tests below, so a   *)
(* line of the file is modelled by their outcomes:                         *)
(*   hasTileTag  line.find("[TILE_") != npos                               *)
(*   isEmpty     line.empty()                                              *)
(*   bracket     line[0] == '['                                            *)
(*   keyValue    getline(iss, key, '=') && getline(iss, value) succeeds    *)
(*   key         the text before the first '='                             *)
(*   ids         the unsigned integers `vss >> optionTileID` reads from    *)
(*               the value, in order                                       *)
(***************************************************************************)

Line(hasTileTag, isEmpty, bracket, keyValue, key, ids) ==
    [hasTileTag |-> hasTileTag, isEmpty |-> isEmpty, bracket |-> bracket,
     keyValue |-> keyValue, key |-> key, ids |-> ids]

\* "[TILE_<n>]"
HeaderLine == Line(TRUE, FALSE, TRUE, FALSE, "", <<>>)
\* ""
BlankLine == Line(FALSE, TRUE, FALSE, FALSE, "", <<>>)
\* "<key>=<ids separated by spaces>"
OptionLine(key, ids) == Line(FALSE, FALSE, FALSE, TRUE, key, ids)
\* a line without '=' that does not start with '['
MalformedLine == Line(FALSE, FALSE, FALSE, FALSE, "", <<>>)

\* The Tile `currentTile` as parseRulesFromFile declares it: no option bit
\* set, collapsed false.  Its entropy member is never assigned and never
\* read, so the model carries no value for it.
NewRuleTile ==
    [options |-> [d \in Directions |-> NoBits], collapsed |-> FALSE]

\* index chosen by parseOption for a key; an unknown key leaves index at 0
optionIndex(key) ==
    IF key = "up" THEN 0
    ELSE IF key = "down" THEN 1
    ELSE IF key = "left" THEN 2
    ELSE IF key = "right" THEN 3
    ELSE 0

\* std::bitset::set(pos) throws std::out_of_range when pos >= size()
setThrows(ids) == \E k \in 1 .. Len(ids) : ids[k] >= BITSET_SIZE

\* parseOption(key, value): sets bit optionTileID of options[index] for
\* every id read from the value (called only when no id is out of range)
parseOption(currentTile, key, ids) ==
    [currentTile EXCEPT !.options[optionIndex(key)] =
        @ \cup {ids[k] : k \in 1 .. Len(ids)}]

RECURSIVE outerLoop(_, _, _)
RECURSIVE innerLoop(_, _, _, _)

\* inner `while (std::getline(inputFile, line))`: the lines of one section,
\* from line j on.  The line that ends the section is consumed here, so the
\* outer loop goes on with the line after it.
innerLoop(lines, j, currentTile, ruleset) ==
    IF j > Len(lines)
        THEN push_back(ruleset, currentTile)
    ELSE IF lines[j].isEmpty \/ lines[j].bracket
        THEN outerLoop(lines, j + 1, push_back(ruleset, currentTile))
    ELSE IF ~lines[j].keyValue
        THEN innerLoop(lines, j + 1, currentTile, ruleset)
    ELSE IF setThrows(lines[j].ids)
        THEN ruleset    \* the exception leaves parseRulesFromFile
    ELSE innerLoop(lines, j + 1,
                   parseOption(currentTile, lines[j].key, lines[j].ids),
                   ruleset)

\* outer `while (std::getline(inputFile, line))`, from line i on
outerLoop(lines, i, ruleset) ==
    IF i > Len(lines)
        THEN ruleset
    ELSE IF lines[i].hasTileTag
        THEN innerLoop(lines, i + 1, NewRuleTile, ruleset)
    ELSE outerLoop(lines, i + 1, ruleset)

\* The rule files given to parseRulesFromFile.
TileWithoutOptions == <<HeaderLine>>
TileAllowingItself ==
    <<HeaderLine, OptionLine("up", <<0>>), OptionLine("down", <<0>>),
      OptionLine("left", <<0>>), OptionLine("right", <<0>>)>>
RuleFiles == {TileWithoutOptions, TileAllowingItself}

\* The lines the rule files of SpecParse are made of: a header, an empty
\* line, a line without '=', "up=0", "right=0 1", a line with a key that is
\* no direction ("weight=1") and a line with an id no bitset can hold
\* ("down=8"); and the files of at most MaxLines such lines.
ParseLines ==
    {HeaderLine, BlankLine, MalformedLine,
     OptionLine("up", <<0>>), OptionLine("right", <<0, 1>>),
     OptionLine("weight", <<1>>), OptionLine("down", <<BITSET_SIZE>>)}
ParseFiles == UNION {[1 .. n -> ParseLines] : n \in 0 .. MaxLines}

----------------------------------------------------------------------------
(* Observers                                                               *)

isInitialized == m_initialized

size == Size(m_output)

at(i) == m_output[i]

\* m_ruleset.size(), the number of tiles of the ruleset
tileCount == Size(m_ruleset)

\* the tiles tile `tileId` of the ruleset permits in direction d
permittedNeighbors(tileId, d) == m_ruleset[tileId].options[d]

\* The tile ids still possible in cell i of `wave`: those whose bit is set
\* in the cell's option bitsets.  (initialize and run treat the four bitsets
\* of a wave cell alike; a tile id counts as possible when no bitset of the
\* cell has dropped it.)
possibilities(wave, i) ==
    {t \in AllBits : \A d \in Directions : t \in wave[i].options[d]}

----------------------------------------------------------------------------
(* getNeighboringIndices                                                   *)

\* getNeighboringIndices with the Right test written `col < m_gridWidth`:
\* the last column is given the first cell of the next row as a neighbour
getNeighboringIndicesNoRightEdge(i) ==
    LET row == i \div m_gridWidth
        col == i % m_gridWidth
    IN  (IF row > 0 THEN <<i - m_gridWidth>> ELSE <<>>)
        \o (IF row < m_gridHeight - 1 THEN <<i + m_gridWidth>> ELSE <<>>)
        \o (IF col > 0 THEN <<i - 1>> ELSE <<>>)
        \o (IF col < m_gridWidth THEN <<i + 1>> ELSE <<>>)

\* the vector after the four conditional push_backs, Up, Down, Left, Right
getNeighboringIndices(i) ==
    LET row == i \div m_gridWidth
        col == i % m_gridWidth
    IN  (IF row > 0 THEN <<i - m_gridWidth>> ELSE <<>>)
        \o (IF row < m_gridHeight - 1 THEN <<i + m_gridWidth>> ELSE <<>>)
        \o (IF col > 0 THEN <<i - 1>> ELSE <<>>)
        \o (IF col < m_gridWidth - 1 THEN <<i + 1>> ELSE <<>>)

----------------------------------------------------------------------------
(* Initial state: a default-constructed WaveFunctionCollapse2DImpl          *)

Init ==
    /\ m_gridWidth = 0
    /\ m_gridHeight = 0
    /\ m_wave = EmptyVector
    /\ m_output = EmptyVector
    /\ m_ruleset = EmptyVector
    /\ m_initialized = FALSE
    /\ pc = "idle"
    /\ index = 0
    /\ neighbors = <<>>
    /\ currentIndex = 0
    /\ neighboringIndices = <<>>
    /\ inputFile = <<>>

----------------------------------------------------------------------------
(* Operations.  The class is used from one thread: a member function is     *)
(* called only when no other is executing (pc = "idle").                    *)

\* initialize(rows, cols); the assertion rows * cols > 0 is the obligation of
\* the caller, so rows and cols are at least 1
initialize(rows, cols) ==
    /\ pc = "idle"
    /\ rows * cols > 0
    /\ m_wave' = [i \in DOMAIN resize(m_wave, rows * cols, DefaultTile) |->
                    [options |-> [d \in Directions |-> AllBits],
                     entropy |-> Size(m_ruleset),
                     collapsed |-> FALSE]]
    /\ m_output' = [i \in DOMAIN resize(m_output, rows * cols, 0) |-> SIZE_MAX]
    /\ m_gridWidth' = cols
    /\ m_gridHeight' = rows
    /\ m_initialized' = TRUE
    /\ UNCHANGED <<m_ruleset, pc, index, neighbors, currentIndex,
                   neighboringIndices,
                   inputFile>>

\* parseRulesFromFile(filepath) on a file with these lines; when the file
\* does not open the function returns at once
parseRulesFromFile(isOpen, lines) ==
    /\ pc = "idle"
    /\ Size(m_ruleset) < MaxTiles
    /\ m_ruleset' = IF ~isOpen THEN m_ruleset
                               ELSE outerLoop(lines, 1, m_ruleset)
    /\ inputFile' = IF ~isOpen THEN <<>> ELSE lines
    /\ UNCHANGED <<m_gridWidth, m_gridHeight, m_wave, m_output, m_initialized,
                   pc, index, neighbors, currentIndex, neighboringIndices>>

\* the values random(min, max) can return: a std::random_device seeds a new
\* engine on every call, so each value of the range is possible every time
random(min, max) == min .. max

\* collapse(index) applied to a wave
collapseWave(wave, i) ==
    IF wave[i].collapsed
        THEN wave
        ELSE [wave EXCEPT ![i].collapsed = TRUE]

\* the wave and the output grid when run() returns, for the three values
\* its calls of random returned
runWave(randomTileIndex, randomDirectionIndex, randomOptionIndex) ==
    collapseWave(
        [m_wave EXCEPT ![randomTileIndex].options[randomDirectionIndex] =
            @ \cup {randomOptionIndex}],
        randomTileIndex)

runOutput(randomTileIndex, randomOptionIndex) ==
    [m_output EXCEPT ![randomTileIndex] = randomOptionIndex]

\* run()
run ==
    /\ pc = "idle"
    /\ IF ~m_initialized
         THEN UNCHANGED <<m_wave, m_output>>
         ELSE \E randomTileIndex \in random(0, Size(m_wave) - 1),
                 randomDirectionIndex \in random(0, NUM_OPTION_DIRECTIONS - 1),
                 randomOptionIndex \in random(0, BITSET_SIZE - 1) :
                /\ m_wave' = runWave(randomTileIndex, randomDirectionIndex,
                                     randomOptionIndex)
                /\ m_output' = runOutput(randomTileIndex, randomOptionIndex)
    /\ UNCHANGED <<m_gridWidth, m_gridHeight, m_ruleset, m_initialized, pc,
                   index, neighbors, currentIndex, neighboringIndices,
                   inputFile>>

\* collapse(index), called by the user; index is a cell of the wave
collapse(i) ==
    /\ pc = "idle"
    /\ i \in DOMAIN m_wave
    /\ m_wave' = collapseWave(m_wave, i)
    /\ UNCHANGED <<m_gridWidth, m_gridHeight, m_output, m_ruleset,
                   m_initialized, pc, index, neighbors, currentIndex,
                   neighboringIndices,
                   inputFile>>

\* a loop body that overwrites the neighbour's options with what cell i
\* allows (the tile recorded for it, or every tile when none is recorded)
\* instead of intersecting them with it
propagateNeighborOverwrite(wave, i, neighborIndex) ==
    [wave EXCEPT ![neighborIndex].options =
        [d \in Directions |->
            IF m_output[i] \in AllBits THEN {m_output[i]} ELSE AllBits]]

\* body of propagate's inner loop for one neighbour of cell i
\* ("Propagate logic here..."): nothing is done
propagateNeighbor(wave, i, neighborIndex) == wave

\* the inner loop over the neighbours nbrs[k], nbrs[k+1], ...
RECURSIVE propagateNeighbors(_, _, _, _)
propagateNeighbors(wave, i, nbrs, k) ==
    IF k > Len(nbrs)
        THEN wave
        ELSE propagateNeighbors(propagateNeighbor(wave, i, nbrs[k]),
                                i, nbrs, k + 1)

\* propagate() is entered: index = 0
propagateBegin ==
    /\ pc = "idle"
    /\ pc' = "propagate"
    /\ index' = 0
    /\ neighbors' = <<>>
    /\ UNCHANGED <<m_gridWidth, m_gridHeight, m_wave, m_output, m_ruleset,
                   m_initialized, currentIndex, neighboringIndices,
                   inputFile>>

\* one iteration of propagate's outer loop
propagateStep ==
    /\ pc = "propagate"
    /\ index < Size(m_wave)
    /\ neighbors' = getNeighboringIndices(index)
    /\ m_wave' = propagateNeighbors(m_wave, index, neighbors', 1)
    /\ index' = index + 1
    /\ UNCHANGED <<m_gridWidth, m_gridHeight, m_output, m_ruleset,
                   m_initialized, pc, currentIndex, neighboringIndices,
                   inputFile>>

\* the loop condition fails and propagate() returns
propagateEnd ==
    /\ pc = "propagate"
    /\ ~(index < Size(m_wave))
    /\ pc' = "idle"
    /\ index' = 0
    /\ neighbors' = <<>>
    /\ UNCHANGED <<m_gridWidth, m_gridHeight, m_wave, m_output, m_ruleset,
                   m_initialized, currentIndex, neighboringIndices,
                   inputFile>>

propagate == propagateBegin \/ propagateStep \/ propagateEnd

\* getNeighboringIndices(i), called by the user.  With m_gridWidth = 0 the
\* divisions are undefined, so the call is made on an initialized grid.
callGetNeighboringIndices(i) ==
    /\ pc = "idle"
    /\ m_gridWidth > 0
    /\ currentIndex' = i
    /\ neighboringIndices' = getNeighboringIndices(i)
    /\ UNCHANGED <<m_gridWidth, m_gridHeight, m_wave, m_output, m_ruleset,
                   m_initialized, pc, index, neighbors, inputFile>>

----------------------------------------------------------------------------------------------------------------------------------------
(* Specifications                                                          *)

\* the grid sizes given to initialize by the solver specifications
GridSizes ==
    {g \in (1 .. MaxCells) \X (1 .. MaxCells) : g[1] * g[2] <= MaxCells}

\* every operation of the solver, on grids of at most MaxCells cells
Next ==
    \/ \E isOpen \in BOOLEAN, lines \in RuleFiles :
          parseRulesFromFile(isOpen, lines)
    \/ \E g \in GridSizes : initialize(g[1], g[2])
    \/ run
    \/ \E i \in 0 .. (MaxCells - 1) : collapse(i)
    \/ propagate

Spec == Init /\ [][Next]_vars

\* the operations on the wave, with no rule file loaded
NextWave ==
    \/ \E g \in GridSizes : initialize(g[1], g[2])
    \/ run
    \/ \E i \in 0 .. (MaxCells - 1) : collapse(i)
    \/ propagate

SpecWave == Init /\ [][NextWave]_vars

\* the grid queries, on grids of up to MaxGridRows x MaxGridCols cells
NextNeighbors ==
    \/ \E rows \in 1 .. MaxGridRows, cols \in 1 .. MaxGridCols :
          initialize(rows, cols)
    \/ \E i \in 0 .. (MaxGridRows * MaxGridCols) : callGetNeighboringIndices(i)

SpecNeighbors == Init /\ [][NextNeighbors]_vars

\* parseRulesFromFile called on a fresh instance (no file read so far)
NextParse ==
    \E isOpen \in BOOLEAN, lines \in ParseFiles :
        /\ m_ruleset = EmptyVector /\ inputFile = <<>>
        /\ parseRulesFromFile(isOpen, lines)

SpecParse == Init /\ [][NextParse]_vars

----------------------------------------------------------------------------
(* Notions the properties are stated with                                  *)

\* the grid position of cell i
rowOf(i) == i \div m_gridWidth
colOf(i) == i % m_gridWidth

\* the step of each direction on the grid, in rows and in columns
rowStep(d) == IF d = Up THEN -1 ELSE IF d = Down THEN 1 ELSE 0
colStep(d) == IF d = Left THEN -1 ELSE IF d = Right THEN 1 ELSE 0

\* the cells of the grid that lie next to cell i in direction d (one or none)
GridNeighbor(i, d) ==
    {j \in 0 .. (m_gridWidth * m_gridHeight - 1) :
        /\ rowOf(j) = rowOf(i) + rowStep(d)
        /\ colOf(j) = colOf(i) + colStep(d)}

\* the index the claim gives the neighbour of i in direction d
NeighborIndex(i, d) ==
    IF d = Up THEN i - m_gridWidth
    ELSE IF d = Down THEN i + m_gridWidth
    ELSE IF d = Left THEN i - 1
    ELSE i + 1

\* the in-grid neighbours of i in the order Up, Down, Left, Right
RECURSIVE NeighborsFrom(_, _)
NeighborsFrom(i, d) ==
    IF d >= NUM_OPTION_DIRECTIONS
        THEN <<>>
        ELSE (IF NeighborIndex(i, d) \in GridNeighbor(i, d)
                 THEN <<NeighborIndex(i, d)>>
                 ELSE <<>>)
             \o NeighborsFrom(i, d + 1)

\* every cell of the wave is collapsed
Solved(wave) == \A i \in DOMAIN wave : wave[i].collapsed

\* a contradiction: some cell has no possible tile left
Contradiction(wave) == \E i \in DOMAIN wave : possibilities(wave, i) = {}

\* the ruleset in force was loaded before the wave was initialized and holds
\* at least one tile (initialize stores the tile count in every cell and the
\* ruleset only ever grows)
RulesLoadedBeforeInitialize ==
    /\ m_initialized
    /\ tileCount > 0
    /\ \A i \in DOMAIN m_wave : m_wave[i].entropy = tileCount

\* propagate() has ended its loop and is about to return
PropagateReturns == pc = "propagate" /\ ~(index < Size(m_wave))

----------------------------------------------------------------------------
(* Properties                                                              *)

\* C1: on an initialized wave, for every index i of the grid,
\* getNeighboringIndices(i) is exactly the sequence of the in-grid
\* 4-neighbours of i in the order Up (i-cols), Down (i+cols), Left (i-1),
\* Right (i+1), a direction that runs off the grid contributing nothing.
C1_NeighborsInOrder ==
    m_initialized =>
        \A i \in DOMAIN m_wave :
            /\ getNeighboringIndices(i) = NeighborsFrom(i, Up)
            /\ \A d \in Directions : GridNeighbor(i, d) \subseteq {NeighborIndex(i, d)}

\* C1 witness: the call getNeighboringIndices(4) on a 3 x 3 grid returned
\* [1, 7, 3, 5], and a corner and an edge cell have fewer neighbours.
C1_Witness ==
    /\ m_initialized /\ m_gridHeight = 3 /\ m_gridWidth = 3
    /\ currentIndex = 4
    /\ neighboringIndices = <<1, 7, 3, 5>>
    /\ getNeighboringIndices(0) = <<3, 1>>
    /\ getNeighboringIndices(1) = <<4, 0, 2>>

\* C2: isInitialized() is false until the first initialize, and a call
\* initialize(rows, cols) made in any state leaves isInitialized() true,
\* size() = rows*cols, every cell uncollapsed with possibility set
\* 0..tileCount()-1 and entropy tileCount(), and every output entry the
\* unresolved sentinel.
C2_InitializeResets ==
    [][ /\ (~m_initialized /\ m_initialized') =>
             \E g \in GridSizes : initialize(g[1], g[2])
        /\ \A g \in GridSizes :
             initialize(g[1], g[2]) =>
                /\ m_initialized'
                /\ Size(m_output') = g[1] * g[2]
                /\ DOMAIN m_wave' = 0 .. (g[1] * g[2] - 1)
                /\ \A i \in DOMAIN m_wave' :
                      /\ ~m_wave'[i].collapsed
                      /\ possibilities(m_wave', i) = 0 .. (Size(m_ruleset') - 1)
                      /\ m_wave'[i].entropy = Size(m_ruleset')
                      /\ m_output'[i] = SIZE_MAX
      ]_vars

\* C3: whenever every cell is collapsed, for every cell c and every in-grid
\* neighbour n of c in direction d, the tile recorded for n is a member of
\* permittedNeighbors(tile recorded for c, d).  Stated for the solves the
\* claim is about: the ruleset was loaded before initialize and every
\* recorded tile is a tile of the ruleset.
C3_LocalConsistency ==
    ( /\ RulesLoadedBeforeInitialize
      /\ Solved(m_wave)
      /\ \A i \in DOMAIN m_output : m_output[i] \in DOMAIN m_ruleset )
    => \A c \in DOMAIN m_output : \A d \in Directions :
          \A n \in GridNeighbor(c, d) :
             m_output[n] \in permittedNeighbors(m_output[c], d)

\* the wave is at a local fixed point: each tile possible in a neighbour n
\* of c is permitted there by some tile still possible in c
LocalFixedPoint(wave) ==
    \A c \in DOMAIN wave : \A d \in Directions : \A n \in GridNeighbor(c, d) :
        \A t \in possibilities(wave, n) :
            \E s \in possibilities(wave, c) \cap DOMAIN m_ruleset :
                t \in permittedNeighbors(s, d)

\* C4: when propagate returns with no contradiction, the wave is at a local
\* fixed point.
C4_PropagateFixedPoint ==
    ( /\ RulesLoadedBeforeInitialize
      /\ PropagateReturns
      /\ ~Contradiction(m_wave) )
    => LocalFixedPoint(m_wave)

\* C5: when run() returns on an initialized wave, every cell is collapsed or
\* a contradiction is recorded.
C5_RunReachesTerminalState ==
    [][ (m_initialized /\ run) => (Solved(m_wave') \/ Contradiction(m_wave')) ]_vars

\* no tile of the ruleset permits any tile of the ruleset in any direction
NoLegalPair ==
    \A a \in DOMAIN m_ruleset : \A b \in DOMAIN m_ruleset : \A d \in Directions :
        b \notin permittedNeighbors(a, d)

\* C6: under a ruleset with no legal pair of adjacent tiles, a solve on a
\* grid of at least two cells never ends with the grid resolved: whenever
\* no contradiction is recorded, some cell is still uncollapsed, and every
\* cell has a possible tile.
C6_ContradictionReported ==
    ( /\ RulesLoadedBeforeInitialize
      /\ NoLegalPair
      /\ Size(m_wave) >= 2
      /\ ~Contradiction(m_wave) )
    => /\ ~Solved(m_wave)
       /\ \A i \in DOMAIN m_wave : possibilities(m_wave, i) # {}

\* C7: in every state after initialize, a cell is collapsed if and only if
\* its possibility set holds exactly one tile id.
C7_CollapsedIffSingleton ==
    m_initialized =>
        \A i \in DOMAIN m_wave :
            m_wave[i].collapsed <=> Cardinality(possibilities(m_wave, i)) = 1

\* C8: no step of propagate adds a tile id to a cell's possibility set: after
\* each step the wave has the same cells and each cell's possibility set is
\* a subset of what it was before the step.
C8_PropagateMonotone ==
    [][ pc = "propagate" =>
          /\ DOMAIN m_wave' = DOMAIN m_wave
          /\ \A i \in DOMAIN m_wave :
                possibilities(m_wave', i) \subseteq possibilities(m_wave, i)
      ]_vars

\* C8 witness: propagate is at work on a wave of at least three cells, one
\* of them collapsed by run, and has gone through two cells or more.
C8_Witness ==
    /\ pc = "propagate"
    /\ index >= 2
    /\ Size(m_wave) >= 3
    /\ \E i \in DOMAIN m_wave : m_wave[i].collapsed /\ m_output[i] # SIZE_MAX
    /\ neighbors # <<>>

\* C9: two solves from the same state produce the same output grid: the
\* output grid run() leaves does not depend on what its calls of random
\* return.
C9_Deterministic ==
    (m_initialized /\ pc = "idle") =>
        \A t1 \in random(0, Size(m_wave) - 1), t2 \in random(0, Size(m_wave) - 1) :
            \A o1 \in random(0, BITSET_SIZE - 1), o2 \in random(0, BITSET_SIZE - 1) :
                runOutput(t1, o1) = runOutput(t2, o2)

\* C10: in every state after initialize the output grid is a view of the
\* wave: an entry is the sentinel if and only if its cell is not collapsed,
\* and otherwise it is the one tile id left in the cell's possibility set, a
\* tile id of the ruleset.
C10_OutputIsViewOfWave ==
    m_initialized =>
        \A i \in DOMAIN m_output :
            /\ (m_output[i] = SIZE_MAX) <=> ~m_wave[i].collapsed
            /\ m_wave[i].collapsed =>
                  /\ possibilities(m_wave, i) = {m_output[i]}
                  /\ m_output[i] \in 0 .. (tileCount - 1)

\* the number of `[TILE_<n>]` header lines of a file
HeaderCount(lines) ==
    Cardinality({k \in 1 .. Len(lines) : lines[k].hasTileTag})

\* every id listed in the file fits a std::bitset<BITSET_SIZE>
IdsInRange(lines) ==
    \A k \in 1 .. Len(lines) : \A n \in 1 .. Len(lines[k].ids) :
        lines[k].ids[n] < BITSET_SIZE

\* C11: parseRulesFromFile on a fresh instance yields exactly one tile per
\* `[TILE_<n>]` header line of the file, with ids 0, 1, ... in order of
\* appearance, whether or not a blank line separates two sections.  Stated
\* for the files whose ids are all in range.
C11_OneTilePerHeader ==
    IdsInRange(inputFile) =>
        /\ Size(m_ruleset) = HeaderCount(inputFile)
        /\ DOMAIN m_ruleset = 0 .. (HeaderCount(inputFile) - 1)

\* the file is one section: a header line followed only by key=value lines
\* and lines without '='
OneSection(lines) ==
    /\ Len(lines) >= 1
    /\ lines[1].hasTileTag
    /\ \A k \in 2 .. Len(lines) :
          ~lines[k].hasTileTag /\ ~lines[k].isEmpty /\ ~lines[k].bracket

\* the key of each direction in a rule file
DirectionKey(d) ==
    IF d = Up THEN "up"
    ELSE IF d = Down THEN "down"
    ELSE IF d = Left THEN "left"
    ELSE "right"

\* the ids listed on the key=value lines of the file whose key is `key`
ListedIds(lines, key) ==
    UNION {{lines[k].ids[n] : n \in 1 .. Len(lines[k].ids)} :
              k \in {j \in 1 .. Len(lines) :
                        lines[j].keyValue /\ lines[j].key = key}}

\* C12: for every parsed tile and every direction, the tile's permission
\* set holds exactly the ids listed on the section's lines with the key of
\* that direction; lines with an unknown key and malformed lines add no id
\* to any set.  Stated for the files of one section whose ids are all in
\* range, parsed on a fresh instance.
C12_OptionsAreListedIds ==
    (OneSection(inputFile) /\ IdsInRange(inputFile)) =>
        /\ 0 \in DOMAIN m_ruleset
        /\ \A d \in Directions :
              permittedNeighbors(0, d) = ListedIds(inputFile, DirectionKey(d))

====
